---- MODULE Spec2Model ----
(***************************************************************************)
(* Model of tools/analyze_usage_log.py: the log parser, the summary, the   *)
(* per-minute resampling, the real-time GC computation and main's control  *)
(* flow with its two exception handlers.                                   *)
(*                                                                         *)
(* Numbers.  Every Python float or int is an exact rational <<n, d>> with  *)
(* d > 0 in lowest terms; a division by zero yields DivZero.  Timestamps   *)
(* are whole seconds counted from 2024-01-01 00:00:00.                     *)
(*                                                                         *)
(* Text.  A log entry is the sequence of its lines, every line a kind      *)
(* (the literal text of the line, which decides the pattern it can match)  *)
(* and the tokens standing where the pattern has its groups.  A token is   *)
(* an integer literal ("5"), a decimal literal ("0.500"), a timestamp      *)
(* literal ("2024-01-01 00:01:00") or other text ("N/A").                  *)
(***************************************************************************)
EXTENDS Integers, Sequences, FiniteSets, TLC

VARIABLES pc, argv, fileState, content, df, df_resampled, df_with_rt,
          summary, caption, exc, out, image, exitCode

vars == <<pc, argv, fileState, content, df, df_resampled, df_with_rt,
          summary, caption, exc, out, image, exitCode>>

(***************************************************************************)
(* Bounds of the model.                                                    *)
(***************************************************************************)
MaxBlocks == 2
MaxLines == 4
MaxRows == 3

(***************************************************************************)
(* Rational arithmetic: what Python's float arithmetic computes, exactly.  *)
(***************************************************************************)
Abs(x) == IF x < 0 THEN -x ELSE x

RECURSIVE GCD(_, _)
GCD(a, b) == IF b = 0 THEN a ELSE GCD(b, a % b)

DivZero == <<0, 0>>

Norm(n, d) ==
  LET s == IF d < 0 THEN -1 ELSE 1
      g == GCD(Abs(n), Abs(d))
  IN  <<(s * n) \div g, (s * d) \div g>>

Q(n) == <<n, 1>>
Zero == Q(0)

RSub(a, b) == Norm(a[1] * b[2] - b[1] * a[2], a[2] * b[2])
RAdd(a, b) == Norm(a[1] * b[2] + b[1] * a[2], a[2] * b[2])
RMul(a, b) == Norm(a[1] * b[1], a[2] * b[2])
RDiv(a, b) == IF b[1] = 0 THEN DivZero ELSE Norm(a[1] * b[2], a[2] * b[1])
RLt(a, b) == a[1] * b[2] < b[1] * a[2]
RPos(a) == a[1] > 0

(***************************************************************************)
(* Tokens and the conversions applied to them.                             *)
(***************************************************************************)
IntTok(n) == [k |-> "int", v |-> n]
DecTok(m) == [k |-> "dec", v |-> m]
TsTok(s) == [k |-> "ts", v |-> s]
BadTok == [k |-> "bad", v |-> 0]

\* float(text): an integer or a decimal literal converts, anything else
\* raises ValueError.  A decimal token carries its value in thousandths.
PyFloatOK(tok) == tok.k \in {"int", "dec"}
PyFloat(tok) == IF tok.k = "int" THEN Q(tok.v) ELSE Norm(tok.v, 1000)

\* int(text), applied only to groups the pattern restricts to \d+.
PyInt(tok) == Q(tok.v)

\* datetime.strptime(text, '%Y-%m-%d %H:%M:%S')
StrptimeOK(tok) == tok.k = "ts"
Strptime(tok) == tok.v

(***************************************************************************)
(* The five patterns.  cls gives, per group, what the group's regular      *)
(* expression accepts: \d+ an integer literal, \d+\.\d+ a decimal literal, *)
(* .*? any text.  eol is the trailing $ of the pattern: re.search is       *)
(* called without re.MULTILINE, so $ matches only at the end of the entry  *)
(* (or before its final newline) and .*? never crosses a newline.          *)
(***************************************************************************)
pattern == [kind |-> "Current", cls |-> <<"any", "int", "any">>, eol |-> FALSE]
gc_pattern ==
  [kind |-> "AverageGC", cls |-> <<"dec", "dec", "dec", "dec">>, eol |-> FALSE]
instant_gc_pattern ==
  [kind |-> "InstantGC", cls |-> <<"int", "dec", "int", "dec">>, eol |-> FALSE]
avg_pattern == [kind |-> "Average", cls |-> <<"any", "any", "any">>, eol |-> TRUE]
raw_gc_pattern ==
  [kind |-> "RawGC", cls |-> <<"int", "dec", "int", "dec">>, eol |-> FALSE]

ClassOK(tok, cls) ==
  CASE cls = "int" -> tok.k = "int"
    [] cls = "dec" -> tok.k = "dec"
    [] OTHER -> TRUE

\* Whether the pattern matches on line i of the entry.
LineMatches(p, entry, i) ==
  /\ entry[i].kind = p.kind
  /\ Len(entry[i].f) = Len(p.cls)
  /\ \A j \in 1..Len(p.cls) : ClassOK(entry[i].f[j], p.cls[j])
  /\ p.eol => i = Len(entry)

\* re.search(p, entry): the leftmost match, 0 for None.
Search(p, entry) ==
  LET hits == {i \in 1..Len(entry) : LineMatches(p, entry, i)}
  IN  IF hits = {} THEN 0 ELSE CHOOSE i \in hits : \A j \in hits : i <= j

\* not entry.strip()
IsBlank(entry) == \A i \in 1..Len(entry) : entry[i].kind = "Blank"

(***************************************************************************)
(* Rows of the table.                                                      *)
(***************************************************************************)
NumCols ==
  {"memory", "avg_memory", "avg_cpu", "avg_threads",
   "ygc_freq", "ygc_time", "fgc_freq", "fgc_time",
   "raw_ygc", "raw_ygc_time", "raw_fgc", "raw_fgc_time",
   "instant_ygc", "instant_ygc_time", "instant_fgc", "instant_fgc_time"}

\* The four groups of a match as numbers, or the defaults of lines 194-197.
GcFields(entry) ==
  LET m == Search(gc_pattern, entry)
  IN  IF m = 0 THEN <<Zero, Zero, Zero, Zero>>
      ELSE [j \in 1..4 |-> PyFloat(entry[m].f[j])]

InstantGcFields(entry) ==
  LET m == Search(instant_gc_pattern, entry)
  IN  IF m = 0 THEN <<Zero, Zero, Zero, Zero>>
      ELSE <<PyInt(entry[m].f[1]), PyFloat(entry[m].f[2]),
             PyInt(entry[m].f[3]), PyFloat(entry[m].f[4])>>

RawGcFieldsSwapped(entry) ==
  LET m == Search(raw_gc_pattern, entry)
  IN  IF m = 0 THEN <<Zero, Zero, Zero, Zero>>
      ELSE <<PyInt(entry[m].f[3]), PyFloat(entry[m].f[2]),
             PyInt(entry[m].f[1]), PyFloat(entry[m].f[4])>>

RawGcFields(entry) ==
  LET m == Search(raw_gc_pattern, entry)
  IN  IF m = 0 THEN <<Zero, Zero, Zero, Zero>>
      ELSE <<PyInt(entry[m].f[1]), PyFloat(entry[m].f[2]),
             PyInt(entry[m].f[3]), PyFloat(entry[m].f[4])>>

AvgFields(entry) ==
  LET m == Search(avg_pattern, entry)
  IN  IF m = 0 THEN <<Zero, Zero, Zero>>
      ELSE [j \in 1..3 |-> PyFloat(entry[m].f[j])]

\* Whether a float() of the Average match raises.
AvgRaises(entry) ==
  LET m == Search(avg_pattern, entry)
  IN  m # 0 /\ \E j \in 1..3 : ~PyFloatOK(entry[m].f[j])

\* Whether strptime or float of the Current match raises.
CurrentRaises(entry) ==
  LET m == Search(pattern, entry)
  IN  m # 0 /\ (~StrptimeOK(entry[m].f[1]) \/ ~PyFloatOK(entry[m].f[3]))

data_point(entry) ==
  LET m == Search(pattern, entry)
      gc == GcFields(entry)
      inst == InstantGcFields(entry)
      raw == RawGcFields(entry)
      avg == AvgFields(entry)
  IN  [timestamp |-> Strptime(entry[m].f[1]),
       memory |-> PyFloat(entry[m].f[3]),
       avg_memory |-> avg[1], avg_cpu |-> avg[2], avg_threads |-> avg[3],
       ygc_freq |-> gc[1], ygc_time |-> gc[2],
       fgc_freq |-> gc[3], fgc_time |-> gc[4],
       raw_ygc |-> raw[1], raw_ygc_time |-> raw[2],
       raw_fgc |-> raw[3], raw_fgc_time |-> raw[4],
       instant_ygc |-> inst[1], instant_ygc_time |-> inst[2],
       instant_fgc |-> inst[3], instant_fgc_time |-> inst[4]]

\* One iteration of the loop over the entries: "skip" (blank), "none" (no
\* Current match), "ValueError" (a conversion raised) or "record".
parse_entry(entry) ==
  IF IsBlank(entry) THEN "skip"
  ELSE IF Search(pattern, entry) = 0 THEN "none"
  ELSE IF CurrentRaises(entry) \/ AvgRaises(entry) THEN "ValueError"
  ELSE "record"

RECURSIVE ParseEntries(_, _, _)
ParseEntries(entries, i, data) ==
  IF i > Len(entries) THEN [raised |-> "none", data |-> data]
  ELSE LET r == parse_entry(entries[i])
       IN  CASE r = "ValueError" -> [raised |-> "ValueError", data |-> <<>>]
             [] r = "record" ->
                  ParseEntries(entries, i + 1, Append(data, data_point(entries[i])))
             [] OTHER -> ParseEntries(entries, i + 1, data)

\* parse_log_file(file_path): open() raises IOError for a missing or
\* unreadable file; otherwise the entries are parsed in file order.
parse_log_file(fs, entries) ==
  IF fs # "ok" THEN [raised |-> "IOError", data |-> <<>>]
  ELSE ParseEntries(entries, 1, <<>>)

(***************************************************************************)
(* analyze_data, and the copy of its computation in create_visualizations. *)
(***************************************************************************)
SecondsPerHour == 3600
SecondsPerMinute == 60
MsPerSecond == 1000

MaxTimestamp(t) ==
  CHOOSE x \in {t[i].timestamp : i \in 1..Len(t)} :
    \A i \in 1..Len(t) : t[i].timestamp <= x
MinTimestamp(t) ==
  CHOOSE x \in {t[i].timestamp : i \in 1..Len(t)} :
    \A i \in 1..Len(t) : x <= t[i].timestamp
MaxMemory(t) ==
  CHOOSE x \in {t[i].memory : i \in 1..Len(t)} :
    \A i \in 1..Len(t) : ~RLt(x, t[i].memory)
MinMemory(t) ==
  CHOOSE x \in {t[i].memory : i \in 1..Len(t)} :
    \A i \in 1..Len(t) : ~RLt(t[i].memory, x)

hourly_growth_unguarded(memory_growth, hours) == RDiv(memory_growth, hours)

\* memory_growth / hours if hours > 0 else 0
hourly_growth_of(memory_growth, hours) ==
  IF RPos(hours) THEN RDiv(memory_growth, hours) ELSE Zero

analyze_data(t) ==
  LET duration == MaxTimestamp(t) - MinTimestamp(t)
      hours == Norm(duration, SecondsPerHour)
      memory_growth == RSub(MaxMemory(t), MinMemory(t))
  IN  [duration |-> duration,
       memory_growth |-> memory_growth,
       hourly_growth |-> hourly_growth_of(memory_growth, hours),
       last_row |-> t[Len(t)]]

(***************************************************************************)
(* resample_data_by_minute: one row per minute from the minute of the      *)
(* earliest row to the minute of the latest, the mean of every column over *)
(* the rows of the minute, an empty minute filled from the one before.     *)
(***************************************************************************)
BucketRight(ts) == (ts \div SecondsPerMinute) * SecondsPerMinute + SecondsPerMinute

\* The minute a timestamp falls in: resample('1min') labels a bin by its
\* left edge.
Bucket(ts) == (ts \div SecondsPerMinute) * SecondsPerMinute

RowsIn(t, b) == {i \in 1..Len(t) : Bucket(t[i].timestamp) = b}

RECURSIVE SumOver(_, _, _)
SumOver(t, S, c) ==
  IF S = {} THEN Zero
  ELSE LET i == CHOOSE x \in S : TRUE
       IN  RAdd(t[i][c], SumOver(t, S \ {i}, c))

MeanOver(t, S, c) == RDiv(SumOver(t, S, c), Q(Cardinality(S)))

ResampleRowNoFill(t, b) ==
  LET S == RowsIn(t, b)
  IN  [c \in NumCols \cup {"timestamp"} |->
         IF c = "timestamp" THEN b
         ELSE IF S # {} THEN MeanOver(t, S, c) ELSE Zero]

RECURSIVE ResampleRow(_, _)
ResampleRow(t, b) ==
  LET S == RowsIn(t, b)
  IN  IF S # {}
      THEN [c \in NumCols \cup {"timestamp"} |->
              IF c = "timestamp" THEN b ELSE MeanOver(t, S, c)]
      ELSE [ResampleRow(t, b - SecondsPerMinute) EXCEPT !.timestamp = b]

resample_data_by_minute(t) ==
  LET first == Bucket(MinTimestamp(t))
      last == Bucket(MaxTimestamp(t))
      n == ((last - first) \div SecondsPerMinute) + 1
  IN  [k \in 1..n |-> ResampleRow(t, first + SecondsPerMinute * (k - 1))]

(***************************************************************************)
(* calculate_realtime_gc.  sort_values('timestamp') uses the default       *)
(* unstable sort, so rows of equal timestamp may come out in any order:    *)
(* the order is a parameter, one of SortedOrders.                          *)
(***************************************************************************)
SortedOrders(t) ==
  {p \in [1..Len(t) -> 1..Len(t)] :
     /\ \A i, j \in 1..Len(t) : i # j => p[i] # p[j]
     /\ \A i \in 1..Len(t) - 1 : t[p[i]].timestamp <= t[p[i + 1]].timestamp}

rt_freq_unguarded(count_diff, time_diff) ==
  RDiv(count_diff, Norm(time_diff, SecondsPerMinute))

rt_freq_per_second(count_diff, time_diff) ==
  IF time_diff > 0 THEN RDiv(count_diff, Q(time_diff)) ELSE Zero

\* Lines 315, 325-328: the frequency per minute of a counter's increase.
rt_freq(count_diff, time_diff) ==
  IF time_diff > 0
  THEN LET minutes == Norm(time_diff, SecondsPerMinute)
       IN  IF RPos(minutes) THEN RDiv(count_diff, minutes) ELSE Zero
  ELSE Zero

rt_time_unguarded(gc_time_diff, count_diff, time_diff) ==
  IF time_diff > 0
  THEN RDiv(RMul(gc_time_diff, Q(MsPerSecond)), count_diff)
  ELSE Zero

\* Lines 315, 331-334: the milliseconds per event.
rt_time(gc_time_diff, count_diff, time_diff) ==
  IF time_diff > 0 /\ RPos(count_diff)
  THEN RDiv(RMul(gc_time_diff, Q(MsPerSecond)), count_diff)
  ELSE Zero

RtColumns(s, i) ==
  IF i = 1
  THEN [rt_ygc_freq |-> s[1].ygc_freq, rt_ygc_time |-> s[1].ygc_time,
        rt_fgc_freq |-> s[1].fgc_freq, rt_fgc_time |-> s[1].fgc_time]
  ELSE LET time_diff == s[i].timestamp - s[i - 1].timestamp
           ygc_diff == RSub(s[i].raw_ygc, s[i - 1].raw_ygc)
           ygc_time_diff == RSub(s[i].raw_ygc_time, s[i - 1].raw_ygc_time)
           fgc_diff == RSub(s[i].raw_fgc, s[i - 1].raw_fgc)
           fgc_time_diff == RSub(s[i].raw_fgc_time, s[i - 1].raw_fgc_time)
       IN  [rt_ygc_freq |-> rt_freq(ygc_diff, time_diff),
            rt_ygc_time |-> rt_time(ygc_time_diff, ygc_diff, time_diff),
            rt_fgc_freq |-> rt_freq(fgc_diff, time_diff),
            rt_fgc_time |-> rt_time(fgc_time_diff, fgc_diff, time_diff)]

calculate_realtime_gc(t, order) ==
  LET s == [i \in 1..Len(t) |-> t[order[i]]]
  IN  [i \in 1..Len(t) |-> s[i] @@ RtColumns(s, i)]

(***************************************************************************)
(* main: the argument check, the pipeline and the two handlers.            *)
(***************************************************************************)
main_exit_no_status(path) ==
  CASE path = "usage" -> [code |-> 1, msgs |-> {"usage"}]
    [] path = "IOError" -> [code |-> 1, msgs |-> {"file_not_found"}]
    [] path = "Exception" -> [code |-> 0, msgs |-> {"exception", "traceback"}]
    [] OTHER -> [code |-> 0, msgs |-> {}]

\* What the run prints and the status it exits with, per way out of main:
\* "usage" (line 571), "IOError" (line 589), "Exception" (line 592) and
\* "return" (main returns and the interpreter exits).
main_exit(path) ==
  CASE path = "usage" -> [code |-> 1, msgs |-> {"usage"}]
    [] path = "IOError" -> [code |-> 1, msgs |-> {"file_not_found"}]
    [] path = "Exception" -> [code |-> 1, msgs |-> {"exception", "traceback"}]
    [] OTHER -> [code |-> 0, msgs |-> {}]

handler_of_first_clause(type) == "IOError"

\* The except clause that catches an exception of the given type: IOError
\* (OSError and its subclasses) the first, every other Exception the second.
handler_of(type) == IF type = "IOError" THEN "IOError" ELSE "Exception"

NoExc == [type |-> "none", at |-> "none"]

Raise(type, at) ==
  /\ exc' = [type |-> type, at |-> at]
  /\ pc' = "except"

Main_CheckArgs ==
  /\ pc = "start"
  /\ IF Len(argv) # 1
     THEN /\ out' = out \cup main_exit("usage").msgs
          /\ exitCode' = main_exit("usage").code
          /\ pc' = "exited"
     ELSE IF argv[1] = "test-fonts"
     THEN /\ out' = out \cup {"font_test"}
          /\ pc' = "return"
          /\ UNCHANGED exitCode
     ELSE /\ out' = out \cup {"analyzing"}
          /\ pc' = "parse"
          /\ UNCHANGED exitCode
  /\ UNCHANGED <<argv, fileState, content, df, df_resampled, df_with_rt,
                 summary, caption, exc, image>>

Main_Parse ==
  /\ pc = "parse"
  /\ LET r == parse_log_file(fileState, content)
     IN  IF r.raised # "none"
         THEN /\ Raise(r.raised, "parse")
              /\ UNCHANGED <<df, out>>
         ELSE /\ df' = r.data
              /\ out' = out \cup {"parsed"}
              /\ pc' = "analyze"
              /\ UNCHANGED exc
  /\ UNCHANGED <<argv, fileState, content, df_resampled, df_with_rt,
                 summary, caption, image, exitCode>>

\* An empty table has no 'timestamp' column: df['timestamp'] raises KeyError.
Main_Analyze ==
  /\ pc = "analyze"
  /\ IF df = <<>>
     THEN /\ Raise("KeyError", "analyze")
          /\ UNCHANGED <<summary, out>>
     ELSE /\ summary' = analyze_data(df)
          /\ out' = out \cup {"summary"}
          /\ pc' = "resample"
          /\ UNCHANGED exc
  /\ UNCHANGED <<argv, fileState, content, df, df_resampled, df_with_rt,
                 caption, image, exitCode>>

\* An empty table has no 'timestamp' column: set_index raises KeyError.
CV_Resample ==
  /\ pc = "resample"
  /\ IF df = <<>>
     THEN /\ Raise("KeyError", "resample")
          /\ UNCHANGED df_resampled
     ELSE /\ df_resampled' = resample_data_by_minute(df)
          /\ pc' = "realtime"
          /\ UNCHANGED exc
  /\ UNCHANGED <<argv, fileState, content, df, df_with_rt, summary, caption,
                 out, image, exitCode>>

\* df.index[0] of an empty table raises IndexError.
CV_RealtimeGC ==
  /\ pc = "realtime"
  /\ IF df_resampled = <<>>
     THEN /\ Raise("IndexError", "realtime")
          /\ UNCHANGED df_with_rt
     ELSE /\ \E order \in SortedOrders(df_resampled) :
               df_with_rt' = calculate_realtime_gc(df_resampled, order)
          /\ pc' = "caption"
          /\ UNCHANGED exc
  /\ UNCHANGED <<argv, fileState, content, df, df_resampled, summary, caption,
                 out, image, exitCode>>

CV_Caption ==
  /\ pc = "caption"
  /\ caption' = analyze_data(df)
  /\ pc' = "savefig"
  /\ UNCHANGED <<argv, fileState, content, df, df_resampled, df_with_rt,
                 summary, exc, out, image, exitCode>>

\* Drawing and plt.savefig: the image is written, or the write fails with an
\* OSError (IOError), or the rendering raises some other exception.
CV_SaveFig ==
  /\ pc = "savefig"
  /\ \/ /\ image' = TRUE
        /\ out' = out \cup {"saved"}
        /\ pc' = "return"
        /\ UNCHANGED exc
     \/ /\ Raise("IOError", "savefig")
        /\ UNCHANGED <<image, out>>
     \/ /\ Raise("RuntimeError", "savefig")
        /\ UNCHANGED <<image, out>>
  /\ UNCHANGED <<argv, fileState, content, df, df_resampled, df_with_rt,
                 summary, caption, exitCode>>

Main_Except ==
  /\ pc = "except"
  /\ out' = out \cup main_exit(handler_of(exc.type)).msgs
  /\ exitCode' = main_exit(handler_of(exc.type)).code
  /\ pc' = "exited"
  /\ UNCHANGED <<argv, fileState, content, df, df_resampled, df_with_rt,
                 summary, caption, exc, image>>

Main_Return ==
  /\ pc = "return"
  /\ out' = out \cup main_exit("return").msgs
  /\ exitCode' = main_exit("return").code
  /\ pc' = "exited"
  /\ UNCHANGED <<argv, fileState, content, df, df_resampled, df_with_rt,
                 summary, caption, exc, image>>

(***************************************************************************)
(* Inputs: command lines, log files, tables.                               *)
(***************************************************************************)
CurrentLine(ts, pid, mem) == [kind |-> "Current", f |-> <<ts, pid, mem>>]
AverageGCLine(a, b, c, d) == [kind |-> "AverageGC", f |-> <<a, b, c, d>>]
InstantGCLine(a, b, c, d) == [kind |-> "InstantGC", f |-> <<a, b, c, d>>]
RawGCLine(a, b, c, d) == [kind |-> "RawGC", f |-> <<a, b, c, d>>]
AverageLine(a, b, c) == [kind |-> "Average", f |-> <<a, b, c>>]
OtherLine == [kind |-> "Other", f |-> <<>>]
BlankLine == [kind |-> "Blank", f |-> <<>>]

\* A Current line a minute after GoodCurrent.
LaterCurrent == CurrentLine(TsTok(60), IntTok(123), DecTok(101000))
GoodCurrent == CurrentLine(TsTok(0), IntTok(123), DecTok(100500))
BadTsCurrent == CurrentLine(BadTok, IntTok(123), DecTok(100500))
BadMemCurrent == CurrentLine(TsTok(0), IntTok(123), BadTok)
GoodAverage == AverageLine(DecTok(99500), DecTok(12300), IntTok(25))
BadAverage == AverageLine(DecTok(99500), BadTok, IntTok(25))
GoodAverageGC ==
  AverageGCLine(DecTok(1200), DecTok(15500), DecTok(100), DecTok(250300))
GoodInstantGC ==
  InstantGCLine(IntTok(2), DecTok(30000), IntTok(1), DecTok(200000))
GoodRawGC == RawGCLine(IntTok(5), DecTok(500), IntTok(1), DecTok(200))
\* "Raw GC: Young GC=5, Young GC Time=1, ...": the time has no decimals.
MalformedRawGC == RawGCLine(IntTok(5), IntTok(1), IntTok(1), DecTok(200))

EntryLines ==
  {GoodCurrent, BadTsCurrent, GoodAverage, BadAverage, GoodAverageGC,
   GoodInstantGC, GoodRawGC, MalformedRawGC, OtherLine, BlankLine}

SeqsUpTo(S, n) == UNION {[1..k -> S] : k \in 0..n}

\* Files of one entry of up to MaxLines lines.
EntryFiles == {<<e>> : e \in SeqsUpTo(EntryLines, MaxLines)}

\* A well-formed sample: a Current line and a Raw GC line.
Sample(ts, v) ==
  <<CurrentLine(TsTok(ts), IntTok(123), DecTok(v[1])),
    RawGCLine(IntTok(v[2]), DecTok(v[3]), IntTok(0), DecTok(0))>>

SampleTimes == {0, 30, 60, 90, 150}
SampleValues == {<<100000, 5, 500>>, <<110000, 8, 800>>, <<105500, 5, 650>>}

FileBlocks ==
  {Sample(ts, v) : ts \in SampleTimes, v \in SampleValues}
    \cup {<<BlankLine>>, <<OtherLine>>, <<BadTsCurrent>>, <<BadMemCurrent>>,
          <<GoodCurrent, BadAverage>>, <<GoodCurrent, GoodAverage>>,
          <<GoodCurrent, GoodAverage, GoodRawGC>>, <<LaterCurrent>>}

\* Files of up to MaxBlocks entries.
Files == SeqsUpTo(FileBlocks, MaxBlocks)

\* sys.argv[1:]
Argvs == {<<>>, <<"test-fonts">>, <<"usage.log">>, <<"usage.log", "extra">>}

NoSummary ==
  [duration |-> 0, memory_growth |-> Zero, hourly_growth |-> Zero,
   last_row |-> <<>>]

Fresh ==
  /\ df = <<>>
  /\ df_resampled = <<>>
  /\ df_with_rt = <<>>
  /\ summary = NoSummary
  /\ caption = NoSummary
  /\ exc = NoExc
  /\ image = FALSE
  /\ exitCode = -1

\* The process starts: any command line, the named file missing, unreadable
\* or holding any of Files.
Init ==
  /\ pc = "start"
  /\ argv \in Argvs
  /\ fileState \in {"missing", "unreadable", "ok"}
  /\ content \in IF fileState = "ok" /\ argv = <<"usage.log">>
                 THEN Files ELSE {<<>>}
  /\ out = {}
  /\ Fresh

Next ==
  \/ Main_CheckArgs
  \/ Main_Parse
  \/ Main_Analyze
  \/ CV_Resample
  \/ CV_RealtimeGC
  \/ CV_Caption
  \/ CV_SaveFig
  \/ Main_Except
  \/ Main_Return

Spec == Init /\ [][Next]_vars

\* parse_log_file on every file of one entry and every file of Files.
InitParse ==
  /\ pc = "parse"
  /\ argv = <<"usage.log">>
  /\ fileState = "ok"
  /\ content \in EntryFiles \cup Files
  /\ out = {"analyzing"}
  /\ Fresh

NextParse == Main_Parse

SpecParse == InitParse /\ [][NextParse]_vars

\* calculate_realtime_gc on every table of up to MaxRows rows of RtRows, in
\* any row order.
RtRow(ts, y, f) ==
  [c \in NumCols \cup {"timestamp"} |->
     CASE c = "timestamp" -> ts
       [] c = "raw_ygc" -> Q(y[1])
       [] c = "raw_ygc_time" -> Norm(y[2], 1000)
       [] c = "raw_fgc" -> Q(f[1])
       [] c = "raw_fgc_time" -> Norm(f[2], 1000)
       [] c = "ygc_freq" -> Norm(1200, 1000)
       [] c = "ygc_time" -> Norm(15500, 1000)
       [] c = "fgc_freq" -> Norm(100, 1000)
       [] c = "fgc_time" -> Norm(250300, 1000)
       [] OTHER -> Zero]

RtRows ==
  {RtRow(ts, v[1], v[2]) :
     ts \in {0, 60, 90},
     v \in {<<<<5, 500>>, <<0, 0>>>>, <<<<8, 800>>, <<1, 400>>>>,
            <<<<8, 500>>, <<0, 0>>>>, <<<<5, 650>>, <<1, 400>>>>}}

RtTables == SeqsUpTo(RtRows, MaxRows)

InitRT ==
  /\ pc = "realtime"
  /\ argv = <<"usage.log">>
  /\ fileState = "ok"
  /\ content = <<>>
  /\ out = {"analyzing", "parsed", "summary"}
  /\ df = <<>>
  /\ df_resampled \in RtTables
  /\ df_with_rt = <<>>
  /\ summary = NoSummary
  /\ caption = NoSummary
  /\ exc = NoExc
  /\ image = FALSE
  /\ exitCode = -1

NextRT == CV_RealtimeGC

SpecRT == InitRT /\ [][NextRT]_vars

\* resample_data_by_minute on every table of up to MaxRows rows of ResRows,
\* in any row order: rows sharing a minute, minutes with no row.
ResRow(ts, v) ==
  [c \in NumCols \cup {"timestamp"} |->
     CASE c = "timestamp" -> ts
       [] c = "memory" -> Norm(v[1], 1000)
       [] c = "raw_ygc" -> Q(v[2])
       [] c = "raw_ygc_time" -> Norm(v[3], 1000)
       [] c = "ygc_freq" -> Norm(1200, 1000)
       [] OTHER -> Zero]

ResRows ==
  {ResRow(ts, v) : ts \in {0, 30, 60, 120, 200},
                   v \in {<<100000, 5, 500>>, <<110500, 8, 800>>}}

ResTables == SeqsUpTo(ResRows, MaxRows)

InitResample ==
  /\ pc = "resample"
  /\ argv = <<"usage.log">>
  /\ fileState = "ok"
  /\ content = <<>>
  /\ out = {"analyzing", "parsed", "summary"}
  /\ df \in ResTables
  /\ df_resampled = <<>>
  /\ df_with_rt = <<>>
  /\ summary = IF df = <<>> THEN NoSummary ELSE analyze_data(df)
  /\ caption = NoSummary
  /\ exc = NoExc
  /\ image = FALSE
  /\ exitCode = -1

NextResample == CV_Resample

SpecResample == InitResample /\ [][NextResample]_vars

(***************************************************************************)
(* Properties.                                                             *)
(***************************************************************************)
\* parse_log_file has acted (under SpecParse the run starts at the call).
Parsed == pc \in {"analyze", "except"}

HasCurrentMatch(e) == ~IsBlank(e) /\ Search(pattern, e) # 0

\* The entries that hold a Current match, in file order.
CurrentEntries == SelectSeq(content, HasCurrentMatch)

CurrentTokens(e) == e[Search(pattern, e)].f

\* An entry whose Current line converts and whose every Average line does.
WellFormed(e) ==
  /\ HasCurrentMatch(e)
  /\ StrptimeOK(CurrentTokens(e)[1])
  /\ PyFloatOK(CurrentTokens(e)[3])
  /\ \A i \in 1..Len(e) :
       e[i].kind = "Average" => \A j \in 1..Len(e[i].f) : PyFloatOK(e[i].f[j])

\* C1: for every input file parse_log_file returns exactly one record per
\* non-blank entry that holds a Current match, in file order, and none for
\* the other entries.
C1_OneRecordPerCurrentEntry ==
  Parsed =>
    /\ exc = NoExc
    /\ Len(df) = Len(CurrentEntries)
    /\ \A k \in 1..Len(df) :
         /\ df[k].timestamp = Strptime(CurrentTokens(CurrentEntries[k])[1])
         /\ df[k].memory = PyFloat(CurrentTokens(CurrentEntries[k])[3])

\* The values a record must carry for a pattern: the numbers of the groups of
\* the pattern's match, zeros when the pattern does not match.
Expected(p, e) ==
  IF Search(p, e) = 0 THEN [j \in 1..Len(p.cls) |-> Zero]
  ELSE [j \in 1..Len(p.cls) |-> PyFloat(e[Search(p, e)].f[j])]

\* C2: in every record produced, the fields of each of the four optional
\* patterns are exactly 0 when the pattern does not match in the record's
\* entry and the parsed values of the match when it does.
C2_MissingPatternsAreZero ==
  pc = "analyze" =>
    /\ Len(df) = Len(CurrentEntries)
    /\ \A k \in 1..Len(df) :
         LET e == CurrentEntries[k]
             r == df[k]
         IN  /\ <<r.ygc_freq, r.ygc_time, r.fgc_freq, r.fgc_time>>
                  = Expected(gc_pattern, e)
             /\ <<r.instant_ygc, r.instant_ygc_time, r.instant_fgc,
                  r.instant_fgc_time>> = Expected(instant_gc_pattern, e)
             /\ <<r.avg_memory, r.avg_cpu, r.avg_threads>>
                  = Expected(avg_pattern, e)
             /\ <<r.raw_ygc, r.raw_ygc_time, r.raw_fgc, r.raw_fgc_time>>
                  = Expected(raw_gc_pattern, e)

\* A record was produced from an entry in which Raw GC matches and Average GC
\* does not.
C2_Witness ==
  /\ pc = "analyze"
  /\ \E k \in 1..Len(df) :
       /\ Search(raw_gc_pattern, CurrentEntries[k]) # 0
       /\ Search(gc_pattern, CurrentEntries[k]) = 0
       /\ df[k].raw_fgc # Zero
       /\ df[k].ygc_freq = Zero

\* C3: parse_log_file returns normally whatever entry is malformed, and the
\* record of every well-formed entry is produced.
C3_MalformedEntryDoesNotThrow ==
  Parsed =>
    /\ pc = "analyze"
    /\ \A i \in 1..Len(content) :
         WellFormed(content[i]) =>
           \E k \in 1..Len(df) : df[k] = data_point(content[i])

\* C4: main exits with status 1 when the argument count is wrong, the input
\* file cannot be opened or an exception is raised in the pipeline, with
\* status 0 in every other run, and with no other status.
C4_ExitCode ==
  /\ pc # "exited" => exitCode = -1
  /\ pc = "exited" =>
       /\ exitCode \in {0, 1}
       /\ exitCode = 1 <=>
            \/ Len(argv) # 1
            \/ /\ argv[1] # "test-fonts"
               /\ \/ fileState # "ok"
                  \/ exc.type # "none"

\* A run has ended with status 1 after an exception that is not an IOError.
C4_Witness ==
  /\ pc = "exited"
  /\ exitCode = 1
  /\ exc.type \in {"ValueError", "KeyError", "RuntimeError"}

\* C5: the file-not-found message is printed only when the input file is
\* missing or unreadable, and every other exception of the pipeline is
\* reported with the generic message and a traceback.
C5_FileNotFoundOnlyForInputFile ==
  pc = "exited" =>
    /\ "file_not_found" \in out => (exc.at = "parse" /\ fileState # "ok")
    /\ (exc.type # "none" /\ ~(exc.at = "parse" /\ fileState # "ok"))
         => {"exception", "traceback"} \subseteq out

Perms(n) == {q \in [1..n -> 1..n] : \A i, j \in 1..n : i # j => q[i] # q[j]}

\* An entry with at most one line of each kind and only well-formed lines.
Plain(e) ==
  /\ WellFormed(e)
  /\ \A i, j \in 1..Len(e) : i # j => e[i].kind # e[j].kind
  /\ \A i \in 1..Len(e) : e[i] # MalformedRawGC

\* C6: the record parsed from an entry does not depend on the order of the
\* entry's lines.
C6_LineOrderDoesNotMatter ==
  (pc = "analyze" /\ Len(content) = 1 /\ Plain(content[1])) =>
    \A q \in Perms(Len(content[1])) :
      LET e == [i \in 1..Len(content[1]) |-> content[1][q[i]]]
      IN  /\ parse_entry(e) = "record"
          /\ df = <<data_point(e)>>

\* calculate_realtime_gc has returned.
RtDone == pc \in {"caption", "savefig", "return"} \/ exc.at = "savefig"

\* C7: a row i > 0 with the timestamp of the row before it has real-time
\* frequencies of exactly 0.
C7_ZeroElapsedZeroFrequency ==
  RtDone =>
    \A i \in 2..Len(df_with_rt) :
      df_with_rt[i].timestamp = df_with_rt[i - 1].timestamp =>
        /\ df_with_rt[i].rt_ygc_freq = Zero
        /\ df_with_rt[i].rt_fgc_freq = Zero

\* Two rows of one timestamp whose raw counters differ.
C7_Witness ==
  /\ pc = "caption"
  /\ \E i \in 2..Len(df_with_rt) :
       /\ df_with_rt[i].timestamp = df_with_rt[i - 1].timestamp
       /\ df_with_rt[i].raw_ygc # df_with_rt[i - 1].raw_ygc
       /\ df_with_rt[i].raw_fgc # df_with_rt[i - 1].raw_fgc

\* C8: a row i > 0 whose raw young (full) GC counter is not above that of
\* the row before it has a real-time young (full) GC time of exactly 0.
C8_NoIncreaseZeroTime ==
  RtDone =>
    \A i \in 2..Len(df_with_rt) :
      /\ ~RLt(df_with_rt[i - 1].raw_ygc, df_with_rt[i].raw_ygc)
           => df_with_rt[i].rt_ygc_time = Zero
      /\ ~RLt(df_with_rt[i - 1].raw_fgc, df_with_rt[i].raw_fgc)
           => df_with_rt[i].rt_fgc_time = Zero

\* A later row whose young counter stayed while its young GC time grew.
C8_Witness ==
  /\ pc = "caption"
  /\ \E i \in 2..Len(df_with_rt) :
       /\ df_with_rt[i].timestamp > df_with_rt[i - 1].timestamp
       /\ df_with_rt[i].raw_ygc = df_with_rt[i - 1].raw_ygc
       /\ RLt(df_with_rt[i - 1].raw_ygc_time, df_with_rt[i].raw_ygc_time)

\* analyze_data has returned; the caption's copy has been computed.
SummaryDone == "summary" \in out
CaptionDone == pc = "savefig" \/ image \/ exc.at = "savefig"

Span(t) ==
  LET ts == {t[i].timestamp : i \in 1..Len(t)}
  IN  (CHOOSE x \in ts : \A y \in ts : y <= x)
        - (CHOOSE x \in ts : \A y \in ts : x <= y)

HourlyGrowthRight(s) ==
  IF Span(df) > 0
  THEN s.hourly_growth
         = RDiv(RMul(s.memory_growth, Q(SecondsPerHour)), Q(Span(df)))
  ELSE s.hourly_growth = Zero

\* C9: hourly_growth is memory_growth / hours when the span of the
\* timestamps is positive and exactly 0 when it is zero, in analyze_data and
\* in the caption's copy.
C9_HourlyGrowth ==
  /\ SummaryDone => HourlyGrowthRight(summary)
  /\ CaptionDone => HourlyGrowthRight(caption)

\* Two records of one timestamp and different memory: a growth over no time.
C9_Witness ==
  /\ CaptionDone
  /\ Len(df) = 2
  /\ Span(df) = 0
  /\ RPos(summary.memory_growth)
  /\ summary.hourly_growth = Zero
  /\ caption.hourly_growth = Zero

RawTokens(e) == e[Search(raw_gc_pattern, e)].f

\* A file of two well-formed entries, both with a Raw GC line, the second a
\* minute after the first.
TwoSamplesAMinuteApart ==
  /\ Len(content) = 2
  /\ \A b \in 1..2 :
       WellFormed(content[b]) /\ Search(raw_gc_pattern, content[b]) # 0
  /\ Strptime(CurrentTokens(content[2])[1])
       = Strptime(CurrentTokens(content[1])[1]) + SecondsPerMinute

\* C10: for such a file the pipeline yields two records and two resampled
\* rows, memory_growth is the larger Memory less the smaller, and row 2 has
\* the frequency count2 - count1 per minute and, when count2 > count1, the
\* time (time2 - time1) * 1000 / (count2 - count1) ms; 10.0 MB, 3 per minute
\* and 100 ms for the sample of the specification.
C10_EndToEnd ==
  (RtDone /\ SummaryDone /\ TwoSamplesAMinuteApart) =>
    LET mem1 == PyFloat(CurrentTokens(content[1])[3])
        mem2 == PyFloat(CurrentTokens(content[2])[3])
        count1 == PyFloat(RawTokens(content[1])[1])
        count2 == PyFloat(RawTokens(content[2])[1])
        time1 == PyFloat(RawTokens(content[1])[2])
        time2 == PyFloat(RawTokens(content[2])[2])
    IN  /\ Len(df) = 2
        /\ Len(df_with_rt) = 2
        /\ summary.memory_growth
             = IF RLt(mem1, mem2) THEN RSub(mem2, mem1) ELSE RSub(mem1, mem2)
        /\ df_with_rt[2].rt_ygc_freq = RSub(count2, count1)
        /\ RLt(count1, count2) =>
             df_with_rt[2].rt_ygc_time
               = RDiv(RMul(RSub(time2, time1), Q(MsPerSecond)),
                      RSub(count2, count1))
        /\ content = <<Sample(0, <<100000, 5, 500>>),
                       Sample(60, <<110000, 8, 800>>)>> =>
             /\ summary.memory_growth = Q(10)
             /\ df_with_rt[2].rt_ygc_freq = Q(3)
             /\ df_with_rt[2].rt_ygc_time = Q(100)

\* The sample of the specification has gone through calculate_realtime_gc.
C10_Witness ==
  /\ pc = "caption"
  /\ content = <<Sample(0, <<100000, 5, 500>>), Sample(60, <<110000, 8, 800>>)>>
  /\ Len(df_with_rt) = 2
  /\ df_with_rt[2].rt_ygc_freq = Q(3)

\* One row per whole minute, the minutes consecutive.
Aligned(t) ==
  /\ t # <<>>
  /\ \A i \in 1..Len(t) : t[i].timestamp % SecondsPerMinute = 0
  /\ \A i, j \in 1..Len(t) : i # j => t[i].timestamp # t[j].timestamp
  /\ Span(t) = SecondsPerMinute * (Len(t) - 1)

Ascending(t) == \A i \in 1..Len(t) - 1 : t[i].timestamp < t[i + 1].timestamp

\* C11: resampling a table of one row per consecutive whole minute gives the
\* rows of the table, timestamps and values unchanged, in ascending order
\* (the table itself when it is ascending), and resampling the result of a
\* resampling gives that result again.
C11_ResampleIdempotent ==
  pc = "realtime" =>
    /\ Aligned(df) =>
         /\ Len(df_resampled) = Len(df)
         /\ \A i \in 1..Len(df) : \E k \in 1..Len(df_resampled) :
              df_resampled[k] = df[i]
         /\ Ascending(df) => df_resampled = df
    /\ resample_data_by_minute(df_resampled) = df_resampled

\* An aligned table of three rows, not in ascending order, was resampled.
C11_Witness ==
  /\ pc = "realtime"
  /\ Aligned(df)
  /\ Len(df) = 3
  /\ ~Ascending(df)
  /\ Len(df_resampled) = 3

\* The rows of the table in the minute that starts at b.
InMinute(t, b) ==
  {i \in 1..Len(t) : b <= t[i].timestamp /\ t[i].timestamp < b + SecondsPerMinute}

RECURSIVE ColumnSum(_, _, _)
ColumnSum(t, c, n) ==
  IF n = 0 THEN Zero ELSE RAdd(ColumnSum(t, c, n - 1), t[n][c])

\* The table reduced to the rows of the minute that starts at b.
OnlyMinute(t, b) ==
  SelectSeq(t, LAMBDA r : b <= r.timestamp /\ r.timestamp < b + SecondsPerMinute)

FirstMinute(t) ==
  CHOOSE b \in {t[i].timestamp - (t[i].timestamp % SecondsPerMinute) : i \in 1..Len(t)} :
    \A i \in 1..Len(t) : b <= t[i].timestamp

LastMinute(t) ==
  CHOOSE b \in {t[i].timestamp - (t[i].timestamp % SecondsPerMinute) : i \in 1..Len(t)} :
    \A i \in 1..Len(t) : t[i].timestamp < b + SecondsPerMinute

\* C12: the resampled table has one row for every whole minute from the
\* minute of the earliest timestamp to the minute of the latest, ascending
\* and 60 seconds apart; a row of a minute with records holds the average of
\* every column over them, a row of a minute without records the values of
\* the nearest earlier minute that has records.
C12_OneRowPerMinute ==
  pc = "realtime" =>
    /\ Len(df_resampled)
         = ((LastMinute(df) - FirstMinute(df)) \div SecondsPerMinute) + 1
    /\ \A k \in 1..Len(df_resampled) :
         LET b == FirstMinute(df) + SecondsPerMinute * (k - 1)
             rows == OnlyMinute(df, b)
         IN  /\ df_resampled[k].timestamp = b
             /\ rows # <<>> =>
                  \A c \in NumCols :
                    RMul(df_resampled[k][c], Q(Len(rows)))
                      = ColumnSum(rows, c, Len(rows))
             /\ rows = <<>> =>
                  \E j \in 1..(k - 1) :
                    /\ InMinute(df, FirstMinute(df) + SecondsPerMinute * (j - 1)) # {}
                    /\ \A i \in (j + 1)..k :
                         InMinute(df, FirstMinute(df) + SecondsPerMinute * (i - 1)) = {}
                    /\ \A c \in NumCols : df_resampled[k][c] = df_resampled[j][c]

\* A minute with two records of different memory was averaged, and two
\* minutes in a row had no record.
C12_Witness ==
  /\ pc = "realtime"
  /\ \E i, j \in 1..Len(df) :
       /\ i # j
       /\ InMinute(df, FirstMinute(df)) = {i, j}
       /\ df[i].memory # df[j].memory
       /\ df_resampled[1].memory # df[i].memory
       /\ df_resampled[1].memory # df[j].memory
  /\ \E k \in 2..Len(df_resampled) - 1 :
       /\ InMinute(df, df_resampled[k].timestamp) = {}
       /\ InMinute(df, df_resampled[k + 1].timestamp) = {}

RawCols == {"raw_ygc", "raw_ygc_time", "raw_fgc", "raw_fgc_time"}

HasRawMatch(e) == Search(raw_gc_pattern, e) # 0

\* The Raw GC lines of the log carry non-decreasing values in timestamp
\* order: of two entries with Raw GC lines, the one of the later timestamp
\* has no smaller value in any of the four groups.
RawLinesNonDecreasing ==
  \A i, j \in 1..Len(content) :
    ( /\ WellFormed(content[i]) /\ HasRawMatch(content[i])
      /\ WellFormed(content[j]) /\ HasRawMatch(content[j])
      /\ Strptime(CurrentTokens(content[i])[1])
           < Strptime(CurrentTokens(content[j])[1]) ) =>
      \A g \in 1..4 :
        ~RLt(PyFloat(RawTokens(content[j])[g]), PyFloat(RawTokens(content[i])[g]))

NoRecords ==
  /\ argv = <<"usage.log">>
  /\ fileState = "ok"
  /\ \A i \in 1..Len(content) : ~HasCurrentMatch(content[i])

\* C14: a readable file that yields no record makes parse_log_file return an
\* empty table and analyze_data raise; the chart stage is never entered, no
\* image is written, and the run ends with status 1 through the generic
\* handler.
C14_NoRecordsFails ==
  NoRecords =>
    /\ df = <<>>
    /\ image = FALSE
    /\ "summary" \notin out
    /\ pc \notin {"resample", "realtime", "caption", "savefig", "return"}
    /\ pc \in {"except", "exited"} => exc = [type |-> "KeyError", at |-> "analyze"]
    /\ pc = "exited" =>
         /\ exitCode = 1
         /\ "parsed" \in out
         /\ {"exception", "traceback"} \subseteq out
         /\ "file_not_found" \notin out

\* A run on a file of two entries without a Current match has ended.
C14_Witness ==
  /\ NoRecords
  /\ Len(content) = 2
  /\ pc = "exited"
  /\ exitCode = 1
  /\ ~image

====
